---- MODULE Spec2Model ----
(***************************************************************************)
(* Model of the user-ledger application: the IndexedDB-backed              *)
(* DatabaseService (src/lib/database.ts), the UI handlers that call it     *)
(* (UserRegistration, BalanceManagement, DataManagement, Index) and the    *)
(* Reports aggregation.                                                    *)
(*                                                                         *)
(* IndexedDB is modelled by its transaction rules: every service method    *)
(* opens its own transaction; transactions whose scopes overlap run in     *)
(* creation order when one of them is readwrite; a request that fails      *)
(* with ConstraintError aborts its transaction and rolls it back; add/put  *)
(* throw DataError synchronously when the value has no valid key.          *)
(***************************************************************************)
EXTENDS Integers, Sequences, FiniteSets, TLC

\* ---------------------------------------------------------------- bounds
MaxCalls == 3          \* calls issued by the environment in one behaviour
MantBits == 3          \* significand width of the number model (binary64 has 53)
MaxReportLen == 3      \* longest balances snapshot handed to Reports (varied records)
MaxRecentLen == 11     \* longest balances snapshot handed to Reports (one user)

\* ------------------------------------------------------ program constants
RecentLimit == 10      \* .slice(0, 10) of the recent-entries table

\* ------------------------------------------------------------- data sets
NoId == 0                              \* a record without a valid `id`
Absent == "<absent>"                   \* a property that is missing or null
Months == {"2024-01", "2024-02"}
IdNumbers == {"123", "456"}
FormAmounts == {0, 50}                  \* what parseFloat may give the form

\* User and Balance records of import files (JSON.parse output): a user, a
\* second user with the same idNumber, a record without `id`, and two users
\* without idNumber; likewise two balances of one (userId, month), one
\* without `id`, and two of one user without month.
FileUserA == [id |-> 91, name |-> "file", idNumber |-> "123", createdAt |-> 0]
FileUserB == [id |-> 92, name |-> "file", idNumber |-> "123", createdAt |-> 0]
FileUserNoId == [id |-> NoId, name |-> "file", idNumber |-> "456", createdAt |-> 0]
FileUserX == [id |-> 93, name |-> "file", idNumber |-> Absent, createdAt |-> 0]
FileUserY == [id |-> 94, name |-> "file", idNumber |-> Absent, createdAt |-> 0]

FileBalanceA ==
  [id |-> 81, userId |-> 91, amount |-> 100, month |-> "2024-01", createdAt |-> 0]
FileBalanceB ==
  [id |-> 82, userId |-> 91, amount |-> 50, month |-> "2024-01", createdAt |-> 0]
FileBalanceNoId ==
  [id |-> NoId, userId |-> 91, amount |-> 50, month |-> "2024-02", createdAt |-> 0]
FileBalanceX ==
  [id |-> 83, userId |-> 91, amount |-> 50, month |-> Absent, createdAt |-> 0]
FileBalanceY ==
  [id |-> 84, userId |-> 91, amount |-> -5, month |-> Absent, createdAt |-> 0]

\* Arrays of a file: empty, one record, two with the same unique index entry,
\* the same record (same id) twice, a record followed by one without id, a
\* lone record without id, and two records without the indexed property.
FileArrays(a, b, n, x, y) ==
  {<<>>, <<a>>, <<a, b>>, <<a, a>>, <<a, n>>, <<n>>, <<x, y>>}

SeqsUpTo(S, n) == UNION { [1..k -> S] : k \in 0..n }

\* A field of the parsed payload: absent, a non-array object, or an array.
ArrayField(items) == [kind |-> "array", items |-> items]
OtherField(k) == [kind |-> k, items |-> <<>>]
FileFields(arrays) ==
  { OtherField(k) : k \in {"missing", "object"} } \cup { ArrayField(s) : s \in arrays }

\* Import files: any users field with no balances, or one user with any
\* balances field.
Payloads ==
  { [users |-> f, balances |-> ArrayField(<<>>)] :
      f \in FileFields(FileArrays(FileUserA, FileUserB, FileUserNoId, FileUserX, FileUserY)) }
    \cup { [users |-> ArrayField(<<FileUserA>>), balances |-> g] :
             g \in FileFields(FileArrays(FileBalanceA, FileBalanceB, FileBalanceNoId,
                                          FileBalanceX, FileBalanceY)) }

VARIABLES
  db,          \* DatabaseService.db is set (TRUE) or null (FALSE)
  opens,       \* pending indexedDB.open requests, each with the method waiting on it
  txq,         \* live transactions, in creation order
  users,       \* object store 'users'
  balances,    \* object store 'balances'
  nextId,      \* source of crypto.randomUUID() / new Date()
  nextCall,    \* number of calls issued so far, plus one
  joins,       \* Promise.all of exportData / loadData in flight
  uiUsers,     \* Index state `users`
  uiBalances,  \* Index state `balances`
  outcome,     \* how the last handler or method settled
  lastExport,  \* value returned by the last exportData, with the store states it overlapped
  propUsers,     \* Reports prop `users`
  propBalances,  \* Reports prop `balances` (the array object Index holds)
  userSummaries, \* Reports state `userSummaries`
  totalBalance,  \* Reports state `totalBalance`
  recentEntries, \* rows of the Recent Balance Entries table as rendered
  rpc            \* where the mounted Reports component is: render, effect, done

svars == <<db, opens, txq, users, balances, nextId, nextCall, joins,
           uiUsers, uiBalances, outcome, lastExport>>
rvars == <<propUsers, propBalances, userSummaries, totalBalance, recentEntries, rpc>>
vars == <<svars, rvars>>

\* ------------------------------------------------- object stores (IndexedDB)
\* Variant: the balances index over userId alone.
BalanceIndexKeyUserOnly(r) == <<r.userId>>
UserIndexKey(r) == r.idNumber                       \* index 'idNumber', unique
BalanceIndexKey(r) == <<r.userId, r.month>>         \* index 'userMonth', unique
IndexKey(store, r) == IF store = "users" THEN UserIndexKey(r) ELSE BalanceIndexKey(r)

\* A record whose key path gives no valid key has no entry in the index.
Indexed(store, r) == IF store = "users" THEN r.idNumber # Absent ELSE r.month # Absent

IndexClash(store, x, r) ==
  Indexed(store, x) /\ Indexed(store, r) /\ IndexKey(store, x) = IndexKey(store, r)

ValidKey(r) == r.id # NoId

\* Variants: add without the unique index, put without it, put that refuses
\* an existing key.
StoreAddKeyOnly(store, recs, r) ==
  IF \E x \in recs : x.id = r.id
    THEN [ok |-> FALSE, recs |-> recs]
    ELSE [ok |-> TRUE, recs |-> recs \cup {r}]

StorePutNoIndex(store, recs, r) ==
  [ok |-> TRUE, recs |-> {x \in recs : x.id # r.id} \cup {r}]

StorePutAsAdd(store, recs, r) ==
  IF \E x \in recs : x.id = r.id \/ IndexClash(store, x, r)
    THEN [ok |-> FALSE, recs |-> recs]
    ELSE [ok |-> TRUE, recs |-> recs \cup {r}]

\* IDBObjectStore.add: ConstraintError when the key or a unique index entry exists.
StoreAdd(store, recs, r) ==
  IF \E x \in recs : x.id = r.id \/ IndexClash(store, x, r)
    THEN [ok |-> FALSE, recs |-> recs]
    ELSE [ok |-> TRUE, recs |-> recs \cup {r}]

\* IDBObjectStore.put: replaces the record with the same key; ConstraintError
\* when another record holds the same unique index entry.
StorePut(store, recs, r) ==
  IF \E x \in recs : x.id # r.id /\ IndexClash(store, x, r)
    THEN [ok |-> FALSE, recs |-> recs]
    ELSE [ok |-> TRUE, recs |-> {x \in recs : x.id # r.id} \cup {r}]

\* One queued request applied to the transaction's working copy of the stores.
ApplyRequest(st, q) ==
  LET recs == IF q.store = "users" THEN st.users ELSE st.balances
      res == CASE q.kind = "clear" -> [ok |-> TRUE, recs |-> {}]
               [] q.kind = "add" -> StoreAdd(q.store, recs, q.value)
               [] q.kind = "put" -> StorePut(q.store, recs, q.value)
               [] OTHER -> [ok |-> TRUE, recs |-> recs]
  IN IF ~st.ok THEN st
     ELSE IF q.store = "users"
       THEN [ok |-> res.ok, users |-> res.recs, balances |-> st.balances]
       ELSE [ok |-> res.ok, users |-> st.users, balances |-> res.recs]

RECURSIVE ApplyRequests(_, _)
ApplyRequests(st, reqs) ==
  IF reqs = <<>> THEN st
  ELSE ApplyRequests(ApplyRequest(st, Head(reqs)), Tail(reqs))

\* A transaction runs its requests in order; an unhandled request error aborts
\* it and nothing it did is kept, otherwise it commits.
RunTransaction(us, bs, reqs) ==
  LET st == ApplyRequests([ok |-> TRUE, users |-> us, balances |-> bs], reqs)
  IN IF st.ok THEN st ELSE [ok |-> FALSE, users |-> us, balances |-> bs]

Request(kind, store, value) == [kind |-> kind, store |-> store, value |-> value]
NoValue == [id |-> NoId]

\* Requests a forEach(store.add) places before add throws DataError (a value
\* without a valid key), and whether it threw.
RECURSIVE AddEach(_, _)
AddEach(store, items) ==
  IF items = <<>> THEN [reqs |-> <<>>, threw |-> FALSE]
  ELSE IF ~ValidKey(Head(items)) THEN [reqs |-> <<>>, threw |-> TRUE]
  ELSE LET rest == AddEach(store, Tail(items))
       IN [reqs |-> <<Request("add", store, Head(items))>> \o rest.reqs,
           threw |-> rest.threw]

\* ------------------------------------------------------- DatabaseService
\* A method that has called initDB and not yet opened its transaction.
Pending(op, cid, arg) == [op |-> op, cid |-> cid, arg |-> arg]

Transaction(p, mode, scope, reqs, threw, value) ==
  [op |-> p.op, cid |-> p.cid, arg |-> p.arg, mode |-> mode, scope |-> scope,
   reqs |-> reqs, threw |-> threw, value |-> value]

\* addUser: the record gets its id and createdAt once initDB has resolved.
AddUserTx(p, fresh) ==
  LET newUser == [id |-> fresh, name |-> p.arg.name,
                  idNumber |-> p.arg.idNumber, createdAt |-> fresh]
  IN Transaction(p, "readwrite", {"users"},
                 <<Request("add", "users", newUser)>>, FALSE, newUser)

AddBalanceTx(p, fresh) ==
  LET newBalance == [id |-> fresh, userId |-> p.arg.userId, amount |-> p.arg.amount,
                     month |-> p.arg.month, createdAt |-> fresh]
  IN Transaction(p, "readwrite", {"balances"},
                 <<Request("add", "balances", newBalance)>>, FALSE, newBalance)

\* updateBalance: store.put(balance).
UpdateBalanceTx(p) ==
  IF ValidKey(p.arg)
    THEN Transaction(p, "readwrite", {"balances"},
                     <<Request("put", "balances", p.arg)>>, FALSE, p.arg)
    ELSE Transaction(p, "readwrite", {"balances"}, <<>>, TRUE, p.arg)

GetAllTx(p, store) ==
  Transaction(p, "readonly", {store}, <<Request("getAll", store, NoValue)>>, FALSE, NoValue)

\* importData: both clears, then users.forEach(add), then balances.forEach(add),
\* all in one readwrite transaction over both stores. An exception in the
\* executor (forEach of a non-array, DataError of add) rejects the promise and
\* leaves the requests placed so far in the transaction.
\* The add requests of importData (lines 192-200).
ImportAdds(data) ==
  LET us == IF data.users.kind = "array" THEN AddEach("users", data.users.items)
            ELSE [reqs |-> <<>>, threw |-> TRUE]
      bs == IF us.threw THEN [reqs |-> <<>>, threw |-> TRUE]
            ELSE IF data.balances.kind = "array"
              THEN AddEach("balances", data.balances.items)
              ELSE [reqs |-> <<>>, threw |-> TRUE]
  IN [reqs |-> us.reqs \o bs.reqs, threw |-> bs.threw]

\* Variants: importData without the clears, and with the clears placed last.
ImportRequestsNoClear(data) == ImportAdds(data)

ImportRequestsClearLast(data) ==
  [reqs |-> ImportAdds(data).reqs \o
              <<Request("clear", "users", NoValue), Request("clear", "balances", NoValue)>>,
   threw |-> ImportAdds(data).threw]

ImportRequests(data) ==
  LET clears == <<Request("clear", "users", NoValue), Request("clear", "balances", NoValue)>>
      us == IF data.users.kind = "array" THEN AddEach("users", data.users.items)
            ELSE [reqs |-> <<>>, threw |-> TRUE]
      bs == IF us.threw THEN [reqs |-> <<>>, threw |-> TRUE]
            ELSE IF data.balances.kind = "array"
              THEN AddEach("balances", data.balances.items)
              ELSE [reqs |-> <<>>, threw |-> TRUE]
  IN [reqs |-> clears \o us.reqs \o bs.reqs, threw |-> bs.threw]

ImportDataTx(p) ==
  LET r == ImportRequests(p.arg)
  IN Transaction(p, "readwrite", {"users", "balances"}, r.reqs, r.threw, NoValue)

\* The transaction a method opens after `await this.initDB()`.
OpenTransaction(p, fresh) ==
  CASE p.op = "addUser" -> AddUserTx(p, fresh)
    [] p.op = "addBalance" -> AddBalanceTx(p, fresh)
    [] p.op = "updateBalance" -> UpdateBalanceTx(p)
    [] p.op = "getAllUsers" -> GetAllTx(p, "users")
    [] p.op = "getAllBalances" -> GetAllTx(p, "balances")
    [] OTHER -> ImportDataTx(p)

Generates(p) == p.op \in {"addUser", "addBalance"}

Settled(op, cid, status) == [op |-> op, cid |-> cid, status |-> status]

\* IndexedDB starts transactions with overlapping scopes in creation order
\* unless both are readonly.
Conflict(a, b) ==
  /\ a.scope \cap b.scope # {}
  /\ (a.mode = "readwrite" \/ b.mode = "readwrite")

Runnable(i) == \A j \in 1..(i - 1) : ~Conflict(txq[j], txq[i])

RemoveAt(q, i) == [k \in 1..(Len(q) - 1) |-> IF k < i THEN q[k] ELSE q[k + 1]]

\* getAll returns the records in key order.
RECURSIVE SortById(_)
SortById(recs) ==
  IF recs = {} THEN <<>>
  ELSE LET m == CHOOSE r \in recs : \A x \in recs : r.id <= x.id
       IN <<m>> \o SortById(recs \ {m})

\* Promise.all of getAllUsers and getAllBalances (exportData, loadData).
Join(kind, us, bs) ==
  [kind |-> kind, gotU |-> FALSE, us |-> {}, gotB |-> FALSE, bs |-> {},
   seen |-> IF kind = "export" THEN {<<us, bs>>} ELSE {}]

WithJoin(js, cid, j) == [c \in DOMAIN js \cup {cid} |-> IF c = cid THEN j ELSE js[c]]
WithoutJoin(js, cid) == [c \in DOMAIN js \ {cid} |-> js[c]]

\* Every exportData in flight overlaps the store state a commit produces.
Observe(js, us, bs) ==
  [c \in DOMAIN js |->
     IF js[c].kind = "export"
       THEN [js[c] EXCEPT !.seen = @ \cup {<<us, bs>>}]
       ELSE js[c]]

\* ---------------------------------------------------------------- state
InitStore ==
  /\ db = FALSE
  /\ opens = <<>>
  /\ txq = <<>>
  /\ users = {}
  /\ balances = {}
  /\ nextId = 1
  /\ nextCall = 1
  /\ joins = <<>>
  /\ uiUsers = <<>>
  /\ uiBalances = <<>>
  /\ outcome = Settled("none", 0, "none")
  /\ lastExport = [cid |-> 0, users |-> {}, balances |-> {}, seen |-> {<<{}, {}>>}]

\* Reports is not mounted.
InitReportsIdle ==
  /\ propUsers = <<>>
  /\ propBalances = <<>>
  /\ userSummaries = <<>>
  /\ totalBalance = 0
  /\ recentEntries = <<>>
  /\ rpc = "unmounted"

\* A call of service methods: each awaits initDB, which resolves at once when
\* this.db is set and otherwise waits for its own indexedDB.open request.
Call(ps) ==
  /\ nextCall <= MaxCalls
  /\ nextCall' = nextCall + 1
  /\ db' = db
  /\ IF db
       THEN /\ txq' = txq \o [i \in 1..Len(ps) |-> OpenTransaction(ps[i], nextId)]
            /\ nextId' = IF \E i \in 1..Len(ps) : Generates(ps[i]) THEN nextId + 1 ELSE nextId
            /\ opens' = opens
            /\ outcome' = IF OpenTransaction(ps[1], nextId).threw
                            THEN Settled(ps[1].op, ps[1].cid, "rejected")
                            ELSE outcome
       ELSE /\ opens' = opens \o ps
            /\ UNCHANGED <<txq, nextId, outcome>>

\* A handler that returns after its validation toast.
Refuse(op, status) ==
  /\ nextCall <= MaxCalls
  /\ nextCall' = nextCall + 1
  /\ outcome' = Settled(op, nextCall, status)
  /\ UNCHANGED <<db, opens, txq, users, balances, nextId, joins,
                 uiUsers, uiBalances, lastExport, rvars>>

\* request.onsuccess of indexedDB.open: this.db is set and the waiting method
\* opens its transaction.
OpenSuccess ==
  /\ opens # <<>>
  /\ db' = TRUE
  /\ opens' = Tail(opens)
  /\ txq' = Append(txq, OpenTransaction(Head(opens), nextId))
  /\ nextId' = IF Generates(Head(opens)) THEN nextId + 1 ELSE nextId
  /\ outcome' = IF OpenTransaction(Head(opens), nextId).threw
                  THEN Settled(Head(opens).op, Head(opens).cid, "rejected")
                  ELSE outcome
  /\ UNCHANGED <<users, balances, nextCall, joins, uiUsers, uiBalances, lastExport, rvars>>

\* UserRegistration.handleSubmit up to `await db.addUser(formData)`.
RegistrationSubmit(idn) ==
  IF idn = ""
    THEN Refuse("registration", "ValidationError")
    ELSE /\ Call(<<Pending("addUser", nextCall, [name |-> "form", idNumber |-> idn])>>)
         /\ UNCHANGED <<users, balances, joins, uiUsers, uiBalances, lastExport, rvars>>

\* BalanceManagement.handleSubmit up to `await db.addBalance(...)`.
BalanceSubmit(uid, amount, month) ==
  IF uid = NoId \/ amount <= 0
    THEN Refuse("balanceEntry", "ValidationError")
    ELSE /\ Call(<<Pending("addBalance", nextCall,
                           [userId |-> uid, amount |-> amount, month |-> month])>>)
         /\ UNCHANGED <<users, balances, joins, uiUsers, uiBalances, lastExport, rvars>>

\* db.updateBalance(balance), called on the service directly.
UpdateBalance(b) ==
  /\ Call(<<Pending("updateBalance", nextCall, b)>>)
  /\ UNCHANGED <<users, balances, joins, uiUsers, uiBalances, lastExport, rvars>>

\* DataManagement.handleImport: the structure check of the parsed file.
Falsy(f) == f.kind = "missing"
IsArray(f) == f.kind = "array"
\* Variant: the structure check without Array.isArray.
ValidPayloadTruthy(data) == ~(Falsy(data.users) \/ Falsy(data.balances))
ValidPayload(data) ==
  ~(Falsy(data.users) \/ Falsy(data.balances)
      \/ ~IsArray(data.users) \/ ~IsArray(data.balances))

HandleImport(data) ==
  IF ~ValidPayload(data)
    THEN Refuse("handleImport", "InvalidFormat")
    ELSE /\ Call(<<Pending("importData", nextCall, data)>>)
         /\ UNCHANGED <<users, balances, joins, uiUsers, uiBalances, lastExport, rvars>>

\* exportData / loadData: Promise.all([getAllUsers(), getAllBalances()]).
GetAllBoth(cid) ==
  <<Pending("getAllUsers", cid, NoValue), Pending("getAllBalances", cid, NoValue)>>

ExportData ==
  /\ Call(GetAllBoth(nextCall))
  /\ joins' = WithJoin(joins, nextCall, Join("export", users, balances))
  /\ UNCHANGED <<users, balances, uiUsers, uiBalances, lastExport, rvars>>

LoadData ==
  /\ Call(GetAllBoth(nextCall))
  /\ joins' = WithJoin(joins, nextCall, Join("load", users, balances))
  /\ UNCHANGED <<users, balances, uiUsers, uiBalances, lastExport, rvars>>

\* ------------------------------------------- transactions run and settle
\* addUser's transaction, then the rest of UserRegistration.handleSubmit:
\* onUserAdded(newUser) appends to Index's users; a rejection only toasts.
RunAddUser(i) ==
  /\ i \in 1..Len(txq) /\ txq[i].op = "addUser" /\ Runnable(i)
  /\ LET tx == txq[i]
         res == RunTransaction(users, balances, tx.reqs)
     IN /\ users' = res.users
        /\ balances' = res.balances
        /\ joins' = Observe(joins, res.users, res.balances)
        /\ uiUsers' = IF res.ok THEN Append(uiUsers, tx.value) ELSE uiUsers
        /\ outcome' = Settled("addUser", tx.cid, IF res.ok THEN "ok" ELSE "ConstraintError")
  /\ txq' = RemoveAt(txq, i)
  /\ UNCHANGED <<db, opens, nextId, nextCall, uiBalances, lastExport, rvars>>

\* addBalance's transaction, then the rest of BalanceManagement.handleSubmit.
RunAddBalance(i) ==
  /\ i \in 1..Len(txq) /\ txq[i].op = "addBalance" /\ Runnable(i)
  /\ LET tx == txq[i]
         res == RunTransaction(users, balances, tx.reqs)
     IN /\ users' = res.users
        /\ balances' = res.balances
        /\ joins' = Observe(joins, res.users, res.balances)
        /\ uiBalances' = IF res.ok THEN Append(uiBalances, tx.value) ELSE uiBalances
        /\ outcome' = Settled("addBalance", tx.cid, IF res.ok THEN "ok" ELSE "ConstraintError")
  /\ txq' = RemoveAt(txq, i)
  /\ UNCHANGED <<db, opens, nextId, nextCall, uiUsers, lastExport, rvars>>

\* updateBalance's transaction.
RunUpdateBalance(i) ==
  /\ i \in 1..Len(txq) /\ txq[i].op = "updateBalance" /\ Runnable(i)
  /\ LET tx == txq[i]
         res == RunTransaction(users, balances, tx.reqs)
     IN /\ users' = res.users
        /\ balances' = res.balances
        /\ joins' = Observe(joins, res.users, res.balances)
        /\ outcome' = IF tx.threw THEN outcome
                      ELSE Settled("updateBalance", tx.cid,
                                   IF res.ok THEN "ok" ELSE "ConstraintError")
  /\ txq' = RemoveAt(txq, i)
  /\ UNCHANGED <<db, opens, nextId, nextCall, uiUsers, uiBalances, lastExport, rvars>>

\* A getAll transaction of exportData or loadData; when it is the second of
\* the pair, Promise.all resolves: loadData sets Index's lists, exportData
\* returns {users, balances}.
RunGetAll(i) ==
  /\ i \in 1..Len(txq) /\ txq[i].op \in {"getAllUsers", "getAllBalances"} /\ Runnable(i)
  /\ LET tx == txq[i]
         j == IF tx.op = "getAllUsers"
                THEN [joins[tx.cid] EXCEPT !.gotU = TRUE, !.us = users]
                ELSE [joins[tx.cid] EXCEPT !.gotB = TRUE, !.bs = balances]
     IN IF j.gotU /\ j.gotB
          THEN /\ joins' = WithoutJoin(joins, tx.cid)
               /\ IF j.kind = "load"
                    THEN /\ uiUsers' = SortById(j.us)
                         /\ uiBalances' = SortById(j.bs)
                         /\ outcome' = Settled("loadData", tx.cid, "ok")
                         /\ UNCHANGED lastExport
                    ELSE /\ lastExport' = [cid |-> tx.cid, users |-> j.us,
                                           balances |-> j.bs, seen |-> j.seen]
                         /\ outcome' = Settled("exportData", tx.cid, "ok")
                         /\ UNCHANGED <<uiUsers, uiBalances>>
          ELSE /\ joins' = WithJoin(joins, tx.cid, j)
               /\ UNCHANGED <<uiUsers, uiBalances, outcome, lastExport>>
  /\ txq' = RemoveAt(txq, i)
  /\ UNCHANGED <<db, opens, users, balances, nextId, nextCall, rvars>>

\* importData's transaction. It commits what was queued unless a request
\* failed; transaction.oncomplete resolves, and handleImport goes on to
\* onDataImported(), which is Index.loadData().
RunImportData(i) ==
  /\ i \in 1..Len(txq) /\ txq[i].op = "importData" /\ Runnable(i)
  /\ LET tx == txq[i]
         res == RunTransaction(users, balances, tx.reqs)
         seenBy == Observe(joins, res.users, res.balances)
     IN /\ users' = res.users
        /\ balances' = res.balances
        /\ IF res.ok /\ ~tx.threw
             THEN /\ txq' = RemoveAt(txq, i) \o
                             [k \in 1..2 |-> OpenTransaction(GetAllBoth(tx.cid)[k], nextId)]
                  /\ joins' = WithJoin(seenBy, tx.cid, Join("load", res.users, res.balances))
                  /\ outcome' = Settled("importData", tx.cid, "ok")
             ELSE /\ txq' = RemoveAt(txq, i)
                  /\ joins' = seenBy
                  /\ outcome' = IF tx.threw THEN outcome
                                ELSE Settled("importData", tx.cid, "aborted")
  /\ UNCHANGED <<db, opens, nextId, nextCall, uiUsers, uiBalances, lastExport, rvars>>

\* ------------------------------------------------------------ environment
StoredIds(recs) == {r.id : r \in recs}
SeqIds(s) == {s[k].id : k \in 1..Len(s)}

\* Balances a caller may hand to updateBalance.
UpdateArgs ==
  [id : StoredIds(balances) \cup {71},
   userId : {r.userId : r \in balances} \cup {91},
   amount : {0, 75},
   month : Months,
   createdAt : {0}]

Next ==
  \/ OpenSuccess
  \/ \E idn \in IdNumbers \cup {""} : RegistrationSubmit(idn)
  \/ \E uid \in SeqIds(uiUsers) \cup {NoId}, a \in FormAmounts, m \in Months :
       BalanceSubmit(uid, a, m)
  \/ \E b \in UpdateArgs : UpdateBalance(b)
  \/ \E data \in Payloads : HandleImport(data)
  \/ ExportData
  \/ LoadData
  \/ \E i \in 1..Len(txq) : RunAddUser(i)
  \/ \E i \in 1..Len(txq) : RunAddBalance(i)
  \/ \E i \in 1..Len(txq) : RunUpdateBalance(i)
  \/ \E i \in 1..Len(txq) : RunGetAll(i)
  \/ \E i \in 1..Len(txq) : RunImportData(i)

Init == InitStore /\ InitReportsIdle

Spec == Init /\ [][Next]_vars

\* The Index page once mounted on an empty database: the first loadData has
\* opened the connection, found no records and cleared isLoading. From there
\* the page is driven by the two forms and the import, and the only
\* loadData is the one handleDataImported starts.
InitUI ==
  /\ db = TRUE
  /\ opens = <<>>
  /\ txq = <<>>
  /\ users = {}
  /\ balances = {}
  /\ nextId = 1
  /\ nextCall = 1
  /\ joins = <<>>
  /\ uiUsers = <<>>
  /\ uiBalances = <<>>
  /\ outcome = Settled("none", 0, "none")
  /\ lastExport = [cid |-> 0, users |-> {}, balances |-> {}, seen |-> {<<{}, {}>>}]
  /\ InitReportsIdle

NextUI ==
  \/ \E idn \in IdNumbers \cup {""} : RegistrationSubmit(idn)
  \/ \E uid \in SeqIds(uiUsers) \cup {NoId}, a \in FormAmounts, m \in Months :
       BalanceSubmit(uid, a, m)
  \/ \E data \in Payloads : HandleImport(data)
  \/ \E i \in 1..Len(txq) : RunAddUser(i)
  \/ \E i \in 1..Len(txq) : RunAddBalance(i)
  \/ \E i \in 1..Len(txq) : RunGetAll(i)
  \/ \E i \in 1..Len(txq) : RunImportData(i)

SpecUI == InitUI /\ [][NextUI]_vars

\* ---------------------------------------------------------------- Reports
\* Amounts are JavaScript numbers. A number is modelled as a whole count of
\* the smallest unit in play, kept to MantBits significant bits; `+` is the
\* exact sum rounded to nearest, ties to even (IEEE 754 addition).
RECURSIVE BitLen(_)
BitLen(n) == IF n = 0 THEN 0 ELSE 1 + BitLen(n \div 2)

RoundNumber(n) ==
  IF BitLen(n) <= MantBits THEN n
  ELSE LET ulp == 2 ^ (BitLen(n) - MantBits)
           q == n \div ulp
           r == n % ulp
       IN IF 2 * r > ulp \/ (2 * r = ulp /\ q % 2 = 1)
            THEN (q + 1) * ulp
            ELSE q * ulp

NumberAdd(a, b) == RoundNumber(a + b)

\* xs.reduce((sum, b) => sum + b.amount, 0)
RECURSIVE ReduceAmounts(_, _)
ReduceAmounts(sum, xs) ==
  IF xs = <<>> THEN sum
  ELSE ReduceAmounts(NumberAdd(sum, Head(xs).amount), Tail(xs))

\* xs.filter(b => b.userId === id)
RECURSIVE FilterByUser(_, _)
FilterByUser(xs, id) ==
  IF xs = <<>> THEN <<>>
  ELSE IF Head(xs).userId = id
    THEN <<Head(xs)>> \o FilterByUser(Tail(xs), id)
    ELSE FilterByUser(Tail(xs), id)

\* xs.sort((a, b) => time(b.createdAt) - time(a.createdAt)): descending, stable.
RECURSIVE InsertByCreatedAt(_, _)
InsertByCreatedAt(sorted, x) ==
  IF sorted = <<>> THEN <<x>>
  ELSE IF Head(sorted).createdAt >= x.createdAt
    THEN <<Head(sorted)>> \o InsertByCreatedAt(Tail(sorted), x)
    ELSE <<x>> \o sorted

RECURSIVE SortByCreatedAtDesc(_)
SortByCreatedAtDesc(xs) ==
  IF xs = <<>> THEN <<>>
  ELSE InsertByCreatedAt(SortByCreatedAtDesc(SubSeq(xs, 1, Len(xs) - 1)), xs[Len(xs)])

NullBalance == [id |-> NoId, userId |-> NoId, amount |-> 0, month |-> "", createdAt |-> 0]

\* Variant: lastBalance taken as the last element of the user's balances.
SummaryLastInArray(user, bs) ==
  LET userBalances == FilterByUser(bs, user.id)
  IN [user |-> user,
      totalBalance |-> ReduceAmounts(0, userBalances),
      balanceCount |-> Len(userBalances),
      lastBalance |-> IF userBalances = <<>> THEN NullBalance
                      ELSE userBalances[Len(userBalances)]]

\* One element of `summaries` in the effect.
Summary(user, bs) ==
  LET userBalances == FilterByUser(bs, user.id)
      sorted == SortByCreatedAtDesc(userBalances)
  IN [user |-> user,
      totalBalance |-> ReduceAmounts(0, userBalances),
      balanceCount |-> Len(userBalances),
      lastBalance |-> IF sorted = <<>> THEN NullBalance ELSE sorted[1]]

\* Snapshots Index may hand to Reports: up to two users, and balances with
\* one entry per (user, month).
ReportUsers ==
  { <<>>,
    <<[id |-> 1, name |-> "form", idNumber |-> "123", createdAt |-> 1]>>,
    <<[id |-> 1, name |-> "form", idNumber |-> "123", createdAt |-> 1],
      [id |-> 2, name |-> "form", idNumber |-> "456", createdAt |-> 1]>> }

ReportMonths ==
  <<"2024-01", "2024-02", "2024-03", "2024-04", "2024-05", "2024-06",
    "2024-07", "2024-08", "2024-09", "2024-10", "2024-11", "2024-12">>

\* Short snapshots of varied records, and snapshots of one user's balances
\* long enough to exceed the recent-entries table.
ReportBalances ==
  SeqsUpTo([userId : {1, 2}, amount : {1, 2 ^ MantBits}, createdAt : {1, 2}], MaxReportLen)
    \cup SeqsUpTo([userId : {1}, amount : {1}, createdAt : {1, 2}], MaxRecentLen)

WithIds(bs) ==
  [k \in 1..Len(bs) |->
     [id |-> 10 + k, userId |-> bs[k].userId, amount |-> bs[k].amount,
      month |-> ReportMonths[k], createdAt |-> bs[k].createdAt]]

InitReports ==
  /\ InitStore
  /\ propUsers \in ReportUsers
  /\ propBalances \in {WithIds(bs) : bs \in ReportBalances}
  /\ userSummaries = <<>>
  /\ totalBalance = 0
  /\ recentEntries = <<>>
  /\ rpc = "render"

\* xs.slice(0, n)
Slice(xs, n) == SubSeq(xs, 1, IF Len(xs) < n THEN Len(xs) ELSE n)

\* Variant: the table rows taken without sorting.
RecentRowsUnsorted(bs) == Slice(bs, RecentLimit)

\* balances.sort(...).slice(0, 10), the rows of the table.
RecentRows(bs) == Slice(SortByCreatedAtDesc(bs), RecentLimit)

\* The render of Reports: the recent-entries table (shown when there are
\* balances) sorts the balances prop in place and shows its first rows.
ReportsRender ==
  /\ rpc = "render"
  /\ propBalances' = IF Len(propBalances) > 0
                       THEN SortByCreatedAtDesc(propBalances)
                       ELSE propBalances
  /\ recentEntries' = IF Len(propBalances) > 0 THEN RecentRows(propBalances) ELSE <<>>
  /\ rpc' = "effect"
  /\ UNCHANGED <<propUsers, userSummaries, totalBalance, svars>>

\* The effect on [users, balances], run after the render.
ReportsEffect ==
  /\ rpc = "effect"
  /\ userSummaries' = [k \in 1..Len(propUsers) |-> Summary(propUsers[k], propBalances)]
  /\ totalBalance' = ReduceAmounts(0, propBalances)
  /\ rpc' = "done"
  /\ UNCHANGED <<propUsers, propBalances, recentEntries, svars>>

NextReports == ReportsRender \/ ReportsEffect

SpecReports == InitReports /\ [][NextReports]_vars

\* exportData's result when nothing commits between its two reads.
ExportOf(us, bs) ==
  [users |-> ArrayField(SortById(us)), balances |-> ArrayField(SortById(bs))]

Items(f) == {f.items[k] : k \in 1..Len(f.items)}

\* ================================================================ claims
\* C1: in every reachable state no two stored Users share an idNumber and no
\* two stored Balances share a (userId, month) pair (a record that has no
\* idNumber, or no month, shares none).
C1_UniqueIndexes ==
  /\ \A a, b \in users :
       (a.idNumber # Absent /\ a.idNumber = b.idNumber) => a = b
  /\ \A a, b \in balances :
       (a.month # Absent /\ a.userId = b.userId /\ a.month = b.month) => a = b

\* An updateBalance that would have duplicated a (userId, month) pair was
\* refused while two balances are stored.
C1_Witness ==
  /\ Cardinality(balances) >= 2
  /\ outcome.op = "updateBalance" /\ outcome.status = "ConstraintError"

\* C2: addUser with an idNumber some stored User already has fails with a
\* constraint violation, the Users collection is unchanged, and the UI does
\* not append to its in-memory list.
C2_DuplicateUserRejected ==
  [][\A i \in 1..Len(txq) :
       (RunAddUser(i) /\ \E u \in users : u.idNumber = txq[i].arg.idNumber)
         => /\ users' = users
            /\ uiUsers' = uiUsers
            /\ outcome' = Settled("addUser", txq[i].cid, "ConstraintError")]_vars

C2_Witness ==
  /\ outcome.op = "addUser" /\ outcome.status = "ConstraintError"
  /\ users # {} /\ uiUsers # <<>>

\* C3: addBalance with a stored (userId, month) pair fails with a constraint
\* violation and leaves Balances unchanged; addBalance for a pair not yet
\* recorded succeeds and adds exactly one Balance.
C3_DuplicateBalanceRejected ==
  [][\A i \in 1..Len(txq) :
       RunAddBalance(i) =>
         IF \E b \in balances :
              b.userId = txq[i].arg.userId /\ b.month = txq[i].arg.month
           THEN /\ balances' = balances
                /\ uiBalances' = uiBalances
                /\ outcome' = Settled("addBalance", txq[i].cid, "ConstraintError")
           ELSE /\ balances \subseteq balances'
                /\ Cardinality(balances') = Cardinality(balances) + 1
                /\ \E b \in balances' \ balances :
                     /\ b.userId = txq[i].arg.userId
                     /\ b.month = txq[i].arg.month
                     /\ b.amount = txq[i].arg.amount
                /\ outcome' = Settled("addBalance", txq[i].cid, "ok")]_vars

\* A second entry for a recorded month was refused, and the user holds two
\* balances (two different months).
C3_Witness ==
  /\ outcome.op = "addBalance" /\ outcome.status = "ConstraintError"
  /\ \E a, b \in balances : a # b /\ a.userId = b.userId

\* C4: importData is all-or-nothing: an import that is not reported as
\* successful leaves Users and Balances exactly as they were.
C4_ImportAllOrNothing ==
  [][\A i \in 1..Len(txq) :
       (RunImportData(i) /\ outcome' # Settled("importData", txq[i].cid, "ok"))
         => (users' = users /\ balances' = balances)]_vars

\* C5: after a successful importData(snapshot) Users is exactly
\* snapshot.users and Balances exactly snapshot.balances.
C5_ImportReplaces ==
  [][\A i \in 1..Len(txq) :
       (RunImportData(i) /\ outcome' = Settled("importData", txq[i].cid, "ok"))
         => /\ users' = Items(txq[i].arg.users)
            /\ balances' = Items(txq[i].arg.balances)]_vars

\* An import has just succeeded and emptied the store while Index still lists
\* a user the store held before.
C5_Witness ==
  /\ outcome.op = "importData" /\ outcome.status = "ok"
  /\ users = {} /\ balances = {}
  /\ uiUsers # <<>>
  /\ \E k \in 1..Len(txq) : txq[k].op = "getAllUsers" /\ txq[k].cid = outcome.cid

\* C6: a payload whose users or balances is missing or not a sequence is
\* rejected before importData is called and the store is untouched; a payload
\* with both present as sequences passes validation and importData is called.
C6_PayloadValidation ==
  [][\A data \in Payloads :
       HandleImport(data) =>
         IF IsArray(data.users) /\ IsArray(data.balances)
           THEN \/ (db /\ txq' = Append(txq, ImportDataTx(Pending("importData", nextCall, data))))
                \/ (~db /\ opens' = Append(opens, Pending("importData", nextCall, data)))
           ELSE /\ outcome' = Settled("handleImport", nextCall, "InvalidFormat")
                /\ UNCHANGED <<users, balances, txq, opens>>]_vars

C6_Witness ==
  /\ outcome.op = "handleImport" /\ outcome.status = "InvalidFormat"
  /\ users # {}

\* C7: in every reachable store state, exportData followed at once by
\* importData of that snapshot succeeds and leaves both collections equal to
\* what they were.
C7_ExportImportRoundTrip ==
  LET r == ImportRequests(ExportOf(users, balances))
      res == RunTransaction(users, balances, r.reqs)
  IN /\ ~r.threw
     /\ res.ok
     /\ res.users = users
     /\ res.balances = balances

C7_Witness == users # {} /\ Cardinality(balances) >= 2

\* C8: the users and balances one exportData call returns are both the
\* contents of the store at one single moment between the call and its return.
C8_ExportIsOneMoment ==
  <<lastExport.users, lastExport.balances>> \in lastExport.seen

\* C9 (as claimed): updateBalance succeeds for every input and afterwards the
\* stored record with balance.id equals balance, all others unchanged.
C9_UpsertAlways ==
  [][\A i \in 1..Len(txq) :
       RunUpdateBalance(i) =>
         /\ outcome' = Settled("updateBalance", txq[i].cid, "ok")
         /\ balances' = {x \in balances : x.id # txq[i].arg.id} \cup {txq[i].arg}]_vars

\* C9 (amended): updateBalance has upsert semantics unless another stored
\* Balance (a different id) has the same (userId, month): then it fails with
\* a constraint violation and Balances is unchanged.
C9_UpsertUnlessIndexClash ==
  [][\A i \in 1..Len(txq) :
       RunUpdateBalance(i) =>
         IF \E x \in balances : /\ x.id # txq[i].arg.id
                                 /\ x.userId = txq[i].arg.userId
                                 /\ x.month = txq[i].arg.month
           THEN /\ outcome' = Settled("updateBalance", txq[i].cid, "ConstraintError")
                /\ balances' = balances
           ELSE /\ outcome' = Settled("updateBalance", txq[i].cid, "ok")
                /\ balances' = {x \in balances : x.id # txq[i].arg.id} \cup {txq[i].arg}]_vars

\* An update has just replaced a stored record (same id, new content).
C9_Witness ==
  /\ outcome.op = "updateBalance" /\ outcome.status = "ok"
  /\ \E x \in balances : x.amount = 75 /\ x.id # 71

\* The exact sum of the amounts of a user's balances, and their number.
RECURSIVE ExactSum(_)
ExactSum(S) ==
  IF S = {} THEN 0
  ELSE LET x == CHOOSE x \in S : TRUE IN x.amount + ExactSum(S \ {x})

BalancesOf(id) == {b \in {propBalances[k] : k \in 1..Len(propBalances)} : b.userId = id}

\* C10: for every User the report's totalBalance equals the sum of amount
\* over exactly that user's Balances, whatever their order, and balanceCount
\* equals their number.
C10_TotalIsSum ==
  rpc = "done" =>
    \A k \in 1..Len(userSummaries) :
      /\ userSummaries[k].totalBalance = ExactSum(BalancesOf(userSummaries[k].user.id))
      /\ userSummaries[k].balanceCount = Cardinality(BalancesOf(userSummaries[k].user.id))

\* C11: the recent-entries view holds min(10, number of balances) entries,
\* ordered by createdAt descending, and no Balance left out of it has a
\* createdAt later than one that is shown.
C11_RecentEntries ==
  rpc # "render" =>
    LET n == Len(propBalances)
        shown == {recentEntries[k] : k \in 1..Len(recentEntries)}
        all == {propBalances[k] : k \in 1..n}
    IN /\ Len(recentEntries) = IF n < RecentLimit THEN n ELSE RecentLimit
       /\ Cardinality(shown) = Len(recentEntries)
       /\ shown \subseteq all
       /\ \A k \in 1..(Len(recentEntries) - 1) :
            recentEntries[k].createdAt >= recentEntries[k + 1].createdAt
       /\ \A o \in all \ shown : \A e \in shown : o.createdAt <= e.createdAt

\* A snapshot longer than the table, with entries of both dates shown and
\* one left out.
C11_Witness ==
  /\ rpc # "render"
  /\ Len(propBalances) > RecentLimit
  /\ Len(recentEntries) = RecentLimit
  /\ recentEntries[1].createdAt > recentEntries[RecentLimit].createdAt

\* C12: aggregation is pure: computing the per-user summaries, the grand
\* total and the recent-entries view leaves the store and the users and
\* balances snapshots unchanged, including the order of their elements.
C12_AggregationPure ==
  [][(ReportsRender \/ ReportsEffect) =>
       /\ propUsers' = propUsers
       /\ propBalances' = propBalances
       /\ users' = users
       /\ balances' = balances]_vars

\* C15: for every User the report's lastBalance is a Balance of that user
\* whose createdAt is at least that of every other Balance of the user, and
\* it is null exactly when the user has no Balances.
C15_LastBalance ==
  rpc = "done" =>
    /\ Len(userSummaries) = Len(propUsers)
    /\ \A k \in 1..Len(userSummaries) :
         LET s == userSummaries[k]
             own == BalancesOf(propUsers[k].id)
         IN /\ s.user = propUsers[k]
            /\ (s.lastBalance = NullBalance) <=> (own = {})
            /\ own # {} =>
                 /\ s.lastBalance \in own
                 /\ \A b \in own : s.lastBalance.createdAt >= b.createdAt

\* Two users after the effect: one with an older balance entered after a
\* newer one, the other with no balances.
C15_Witness ==
  /\ rpc = "done"
  /\ Len(userSummaries) = 2
  /\ userSummaries[2].lastBalance = NullBalance
  /\ \E i, j \in 1..Len(propBalances) :
       /\ propBalances[i].userId = 1
       /\ propBalances[j].userId = 1
       /\ propBalances[i].id < propBalances[j].id
       /\ propBalances[i].createdAt > propBalances[j].createdAt
       /\ userSummaries[1].lastBalance = propBalances[i]

\* C13: stored Users are never updated or deleted in place: every User once
\* stored stays in Users with identical fields unless a successful
\* importData replaces the collection, and addBalance and updateBalance
\* leave Users unchanged.
C13_UsersKept ==
  [][/\ (\E u \in users : u \notin users') =>
          \E i \in 1..Len(txq) :
            RunImportData(i) /\ outcome' = Settled("importData", txq[i].cid, "ok")
     /\ \A i \in 1..Len(txq) :
          (RunAddBalance(i) \/ RunUpdateBalance(i)) => users' = users]_vars

\* C14: every Balance in the store has a positive amount in every state
\* reachable through the balance entry form, updateBalance and JSON import,
\* and the form never calls addBalance with an amount that is not positive.
C14_PositiveAmounts ==
  /\ \A b \in balances : b.amount > 0
  /\ \A k \in 1..Len(txq) : txq[k].op = "addBalance" => txq[k].arg.amount > 0
  /\ \A k \in 1..Len(opens) : opens[k].op = "addBalance" => opens[k].arg.amount > 0

\* No store operation and no loadData is in flight.
Quiescent == opens = <<>> /\ txq = <<>> /\ DOMAIN joins = {}

\* C16: whenever no store operation and no loadData is in flight, the users
\* and balances lists of the Index page hold exactly the ids of the store's
\* Users and Balances, each once, for every interleaving of registration,
\* balance entry, import and the reload that import triggers.
C16_ListsMatchStore ==
  Quiescent =>
    /\ SeqIds(uiUsers) = StoredIds(users)
    /\ SeqIds(uiBalances) = StoredIds(balances)
    /\ Len(uiUsers) = Cardinality(users)
    /\ Len(uiBalances) = Cardinality(balances)

====
